---- MODULE Spec2Model ----
(***************************************************************************)
(* Model of tdapi's self-refreshing session: TDClient (src/tdapi/client.py) *)
(* with its credential record EASObject (src/tdapi/models/auth.py) and the *)
(* helpers load_json, save_json and remove_null_values (src/tdapi/utils.py).*)
(*                                                                         *)
(* A request made through TDClient._request is split at its network calls: *)
(* the original request, the token POST made by authenticate, the answer   *)
(* of the auth server, and the resend.  Everything the code does between   *)
(* two network calls is one step.                                          *)
(***************************************************************************)
EXTENDS Integers, Sequences, FiniteSets, TLC

\* ------------------------------------------------------------------------
\* Bounds of the model
\* ------------------------------------------------------------------------
\* calls of _request / authenticate made on the session, all callers together
MaxOps == 2
\* token pairs the auth server issues
MaxIssue == 2

\* ------------------------------------------------------------------------
\* Program constants
\* ------------------------------------------------------------------------
\* client.py:93  resp.status_code == 401
Unauthorized == 401
\* client.py:194  self.validate_status(resp, 200)
TokenStatusOK == 200

\* the threads that may call into the one session
Callers == {1, 2}

\* models/auth.py:6-12  the fields of EASObject
StrFields == {"access_token", "refresh_token", "token_type", "scope"}
IntFields == {"expires_in", "refresh_token_expires_in"}
Fields == StrFields \cup IntFields

\* models/auth.py:7-12  the defaults of EASObject
FieldDefault(f) == IF f \in IntFields THEN 0 ELSE ""

\* a Python dict: a function from its keys
EmptyDict == [k \in {} |-> ""]

\* a merge that replaces the set wholesale instead of updating it
DictReplace(d, u) == u

\* dict.update (client.py:118): keys of u overwrite, the other keys of d stay
DictUpdate(d, u) ==
  [k \in (DOMAIN d) \cup (DOMAIN u) |-> IF k \in DOMAIN u THEN u[k] ELSE d[k]]

\* EASObject(**d) (client.py:119, models/auth.py:6-12): the declared fields
\* are taken from d, a missing one gets its default, an unknown key is
\* ignored (pydantic's default for extra keys)
EASObject(d) ==
  [f \in Fields |-> IF f \in DOMAIN d THEN d[f] ELSE FieldDefault(f)]

\* EASObject.dict() (client.py:117, utils.py:28): the six fields as a dict
EASDict(obj) == [f \in Fields |-> obj[f]]

\* f"Bearer {access_token}" (client.py:120)
Bearer(access_token) == "Bearer " \o access_token

\* ------------------------------------------------------------------------
\* The credential file (utils.py:19-29)
\* ------------------------------------------------------------------------
NoFile == [kind |-> "absent"]
\* a file that holds no JSON document: what open(path, "w") leaves behind
\* when the dump after it fails
Truncated == [kind |-> "truncated"]
JsonFile(d) == [kind |-> "json", data |-> d]

\* save_json (utils.py:25-29): a BaseModel is written as its dict()
save_json(obj) == JsonFile(EASDict(obj))

\* load_json (utils.py:19-22) succeeds on a file holding a JSON document
CanLoad(f) == f.kind = "json"
load_json(f) == f.data

\* the outcomes of save_json: written; open() failed and the file is as it
\* was; open() truncated the file and the write failed
SaveOutcomes == {"ok", "open_failed", "write_failed"}

FileAfterSave(old, obj, outcome) ==
  CASE outcome = "ok" -> save_json(obj)
    [] outcome = "open_failed" -> old
    [] OTHER -> Truncated

\* ------------------------------------------------------------------------
\* remove_null_values (utils.py:32-41).  A Python value is tagged: None, a
\* string, or a nested dict.
\* ------------------------------------------------------------------------
None == [t |-> "none"]
Str(s) == [t |-> "str", v |-> s]
Dict(d) == [t |-> "dict", v |-> d]

\* a filter that does not descend into nested dicts
remove_null_values_flat(params) ==
  [k \in {k \in DOMAIN params : params[k] # None} |-> params[k]]

RECURSIVE remove_null_values(_)
remove_null_values(params) ==
  LET value(k) == IF params[k].t = "dict"
                  THEN Dict(remove_null_values(params[k].v))
                  ELSE params[k]
      kept == {k \in DOMAIN params : value(k) # None}
  IN [k \in kept |-> value(k)]

\* the payload _post_access_token builds (client.py:183-191)
TokenParams(grant_type, refresh_token, access_type, code, client_id, redirect_uri) ==
  remove_null_values(
    [grant_type |-> grant_type, refresh_token |-> refresh_token,
     access_type |-> access_type, code |-> code,
     client_id |-> client_id, redirect_uri |-> redirect_uri])

\* user_config.consumer_key (config.py:8, client.py:144)
ConsumerKey == "CONSUMER_KEY"

\* the payload of the call authenticate makes (client.py:139-146)
RefreshParams(obj) ==
  TokenParams(Str("refresh_token"), Str(obj.refresh_token), None, None,
              Str(ConsumerKey), None)

\* a status check that accepts every status
validate_status_any(status_code, expected) == TRUE

\* validate_status (client.py:107-114), True when no BadStatusCode is raised
validate_status(status_code, expected) == status_code = expected

\* ------------------------------------------------------------------------
\* The environment: credential files found at start, the auth server, the
\* API server
\* ------------------------------------------------------------------------
\* the body of a token response: the n-th pair the server issues, with the
\* keys in dom (resp.json(), client.py:196)
TokenBody(n, dom) ==
  [k \in dom |->
     CASE k = "access_token" -> "A" \o ToString(n)
       [] k = "refresh_token" -> "R" \o ToString(n)
       [] k = "token_type" -> "Bearer"
       [] k = "expires_in" -> 1800 + n
       [] k = "refresh_token_expires_in" -> 7776000 + n
       [] k = "scope" -> "PlaceTrades"
       [] OTHER -> "x"]

\* the key sets of a 200 token response: a token response always carries an
\* access_token; the other fields may be missing, an unknown key may be there
RespDomains ==
  {{"access_token", "token_type"}, {"access_token", "expires_in", "extra"}, Fields}

\* the body of a token response whose status is not 200
ErrorBody == [error |-> "invalid_grant"]

\* the credential files the session may be constructed on (client.py:70)
FileDomains ==
  {{}, {"access_token"}, {"access_token", "refresh_token"}, Fields,
   Fields \cup {"extra"}}

InitialFiles ==
  {NoFile, Truncated} \cup {JsonFile(TokenBody(0, dom)) : dom \in FileDomains}

\* statuses an API endpoint answers with (client.py:90, 96)
ApiStatuses == {200, 401, 404}
\* statuses the token endpoint answers with (client.py:193)
TokenStatuses == {200, 400}

\* the Authorization header a caller passes in kwargs; "" when it passes none
Overrides == {"", "Basic custom"}

\* requests.Session.request (client.py:90, 96): the headers of the call go
\* over the headers of the session
RequestAuthorization(session_header, override) ==
  IF override = "" THEN session_header ELSE override

\* ------------------------------------------------------------------------
\* State
\* ------------------------------------------------------------------------
VARIABLES
  file,         \* the credential file at auth_filepath
  constructed,  \* "none", "ok" or "failed": TDClient.__init__
  eas,          \* self.eas_object
  header,       \* self.headers["Authorization"], "" while unset
  lastSave,     \* outcome of the last save_json call, "none" before the first
  raised,       \* TRUE once a call on the session has raised
  overlap,      \* TRUE once two token exchanges were under way at once
  issued,       \* token pairs the auth server has issued
  ops,          \* calls made on the session
  pc,           \* per caller: where it is in _request / authenticate
  op,           \* per caller: the call it is in or made last
  kwargs,       \* per caller: the Authorization passed in kwargs ("" if none)
  wire,         \* per caller: the Authorization of its request in flight
  rejected,     \* per caller: the Authorization of its request answered 401
  first,        \* per caller: status of the original request's response
  second,       \* per caller: status of the resend's response
  result,       \* per caller: what the call returned or raised
  reqCount,     \* per caller: self.request calls made by the current call
  authCount,    \* per caller: authenticate calls made by the current call
  exchCount,    \* per caller: token POSTs made by the current call
  exch,         \* per caller: the payload of its token POST
  tokResp,      \* per caller: the token response on its way back
  rnvIn,        \* input of remove_null_values under test
  rnvOut,       \* its output
  stage,        \* progress of the function under test
  mPrev,        \* the credential set before the update under test
  mUpd,         \* the update under test
  mOnce         \* the credential set after the update was merged once

sessionVars == <<file, constructed, eas, header, lastSave>>
callVars == <<pc, op, kwargs, wire, rejected, first, second, result, reqCount,
              authCount, exchCount, exch, tokResp>>
testVars == <<rnvIn, rnvOut, stage, mPrev, mUpd, mOnce>>
vars == <<sessionVars, raised, overlap, issued, ops, callVars, testVars>>

NoResult == [kind |-> "none", status |-> 0]
NoTokResp == [status |-> 0, body |-> EmptyDict]

\* no call made yet
InitCalls ==
  /\ lastSave = "none"
  /\ raised = FALSE
  /\ overlap = FALSE
  /\ issued = 0
  /\ ops = 0
  /\ pc = [t \in Callers |-> "idle"]
  /\ op = [t \in Callers |-> "none"]
  /\ kwargs = [t \in Callers |-> ""]
  /\ wire = [t \in Callers |-> ""]
  /\ rejected = [t \in Callers |-> ""]
  /\ first = [t \in Callers |-> 0]
  /\ second = [t \in Callers |-> 0]
  /\ result = [t \in Callers |-> NoResult]
  /\ reqCount = [t \in Callers |-> 0]
  /\ authCount = [t \in Callers |-> 0]
  /\ exchCount = [t \in Callers |-> 0]
  /\ exch = [t \in Callers |-> EmptyDict]
  /\ tokResp = [t \in Callers |-> NoTokResp]

NoTest ==
  /\ rnvIn = EmptyDict
  /\ rnvOut = EmptyDict
  /\ stage = "idle"
  /\ mPrev = EASObject(EmptyDict)
  /\ mUpd = EmptyDict
  /\ mOnce = EASObject(EmptyDict)

\* before TDClient(auth_filepath): eas_object is the class attribute of
\* client.py:62, the session has no Authorization header
Init ==
  /\ file \in InitialFiles
  /\ constructed = "none"
  /\ eas = EASObject(EmptyDict)
  /\ header = ""
  /\ InitCalls
  /\ NoTest

\* ------------------------------------------------------------------------
\* TDClient
\* ------------------------------------------------------------------------
\* an update that does not write the file
UpdateEasObjectNoSave(eas_dict, outcome) ==
  LET obj == EASObject(DictUpdate(EASDict(eas), eas_dict))
  IN /\ eas' = obj
     /\ header' = Bearer(obj.access_token)
     /\ file' = file
     /\ lastSave' = outcome

\* an update that leaves the Authorization header as it was
UpdateEasObjectNoHeader(eas_dict, outcome) ==
  LET obj == EASObject(DictUpdate(EASDict(eas), eas_dict))
  IN /\ eas' = obj
     /\ header' = IF header = "" THEN Bearer(obj.access_token) ELSE header
     /\ file' = FileAfterSave(file, obj, outcome)
     /\ lastSave' = outcome

\* an update that saves first and keeps the old set when the save fails
UpdateEasObjectSaveFirst(eas_dict, outcome) ==
  LET obj == EASObject(DictUpdate(EASDict(eas), eas_dict))
  IN /\ eas' = IF outcome = "ok" THEN obj ELSE eas
     /\ header' = IF outcome = "ok" THEN Bearer(obj.access_token) ELSE header
     /\ file' = FileAfterSave(file, obj, outcome)
     /\ lastSave' = outcome

\* update_eas_object (client.py:116-121)
UpdateEasObject(eas_dict, outcome) ==
  LET obj == EASObject(DictUpdate(EASDict(eas), eas_dict))
  IN /\ eas' = obj
     /\ header' = Bearer(obj.access_token)
     /\ file' = FileAfterSave(file, obj, outcome)
     /\ lastSave' = outcome

\* TDClient.__init__ (client.py:65-71): load_json raises on a file that is
\* missing or holds no JSON; update_eas_object raises when the save fails
Construct(outcome) ==
  /\ constructed = "none"
  /\ IF CanLoad(file)
     THEN /\ UpdateEasObject(load_json(file), outcome)
          /\ constructed' = IF outcome = "ok" THEN "ok" ELSE "failed"
     ELSE /\ constructed' = "failed"
          /\ UNCHANGED <<file, eas, header, lastSave>>
  /\ UNCHANGED <<issued, ops, callVars, testVars, raised, overlap>>

\* _request, line 90: the original request goes out
CallRequest(t, override) ==
  /\ constructed = "ok"
  /\ pc[t] = "idle"
  /\ ops < MaxOps
  /\ ops' = ops + 1
  /\ op' = [op EXCEPT ![t] = "request"]
  /\ kwargs' = [kwargs EXCEPT ![t] = override]
  /\ wire' = [wire EXCEPT ![t] = RequestAuthorization(header, override)]
  /\ rejected' = [rejected EXCEPT ![t] = ""]
  /\ first' = [first EXCEPT ![t] = 0]
  /\ second' = [second EXCEPT ![t] = 0]
  /\ result' = [result EXCEPT ![t] = NoResult]
  /\ reqCount' = [reqCount EXCEPT ![t] = 1]
  /\ authCount' = [authCount EXCEPT ![t] = 0]
  /\ exchCount' = [exchCount EXCEPT ![t] = 0]
  /\ exch' = [exch EXCEPT ![t] = EmptyDict]
  /\ pc' = [pc EXCEPT ![t] = "wait1"]
  /\ UNCHANGED <<sessionVars, issued, tokResp, testVars, raised, overlap>>

\* _request, lines 90-95 and 102: the first response; 401 calls authenticate,
\* any other status is returned
FirstResponse(t, status) ==
  /\ pc[t] = "wait1"
  /\ first' = [first EXCEPT ![t] = status]
  /\ IF status = Unauthorized
     THEN /\ authCount' = [authCount EXCEPT ![t] = @ + 1]
          /\ rejected' = [rejected EXCEPT ![t] = wire[t]]
          /\ pc' = [pc EXCEPT ![t] = "auth"]
          /\ UNCHANGED result
     ELSE /\ result' = [result EXCEPT ![t] = [kind |-> "response", status |-> status]]
          /\ pc' = [pc EXCEPT ![t] = "idle"]
          /\ UNCHANGED <<authCount, rejected>>
  /\ UNCHANGED <<sessionVars, issued, ops, op, kwargs, wire, second, reqCount,
                 exchCount, exch, tokResp, testVars, raised, overlap>>

\* authenticate called by the user of the client (client.py:123)
CallAuthenticate(t) ==
  /\ constructed = "ok"
  /\ pc[t] = "idle"
  /\ ops < MaxOps
  /\ ops' = ops + 1
  /\ op' = [op EXCEPT ![t] = "authenticate"]
  /\ kwargs' = [kwargs EXCEPT ![t] = ""]
  /\ wire' = [wire EXCEPT ![t] = ""]
  /\ rejected' = [rejected EXCEPT ![t] = ""]
  /\ first' = [first EXCEPT ![t] = 0]
  /\ second' = [second EXCEPT ![t] = 0]
  /\ result' = [result EXCEPT ![t] = NoResult]
  /\ reqCount' = [reqCount EXCEPT ![t] = 0]
  /\ authCount' = [authCount EXCEPT ![t] = 1]
  /\ exchCount' = [exchCount EXCEPT ![t] = 0]
  /\ exch' = [exch EXCEPT ![t] = EmptyDict]
  /\ pc' = [pc EXCEPT ![t] = "auth"]
  /\ UNCHANGED <<sessionVars, issued, tokResp, testVars, raised, overlap>>

\* a token POST that waits while another caller's exchange is under way
PostAccessTokenLocked(t) ==
  /\ pc[t] = "auth"
  /\ \A u \in Callers \ {t} : pc[u] \notin {"exchange", "exchanged"}
  /\ exch' = [exch EXCEPT ![t] = RefreshParams(eas)]
  /\ exchCount' = [exchCount EXCEPT ![t] = @ + 1]
  /\ pc' = [pc EXCEPT ![t] = "exchange"]
  /\ overlap' = (overlap \/ \E u \in Callers \ {t} : pc[u] \in {"exchange", "exchanged"})
  /\ UNCHANGED <<sessionVars, issued, ops, op, kwargs, wire, rejected, first,
                 second, result, reqCount, authCount, tokResp, testVars, raised>>

\* authenticate, lines 126-146, and _post_access_token, lines 183-193: the
\* token POST goes out.  self.eas_object is never None (line 62 sets a class
\* default, line 119 is the only assignment), so line 136 picks it and no
\* check of its refresh_token is made.
PostAccessToken(t) ==
  /\ pc[t] = "auth"
  /\ exch' = [exch EXCEPT ![t] = RefreshParams(eas)]
  /\ exchCount' = [exchCount EXCEPT ![t] = @ + 1]
  /\ pc' = [pc EXCEPT ![t] = "exchange"]
  /\ overlap' = (overlap \/ \E u \in Callers \ {t} : pc[u] \in {"exchange", "exchanged"})
  /\ UNCHANGED <<sessionVars, issued, ops, op, kwargs, wire, rejected, first,
                 second, result, reqCount, authCount, tokResp, testVars, raised>>

\* the auth server answers the POST of line 193: a fresh pair with 200, or
\* an error status
AuthServer(t, status, dom) ==
  /\ pc[t] = "exchange"
  /\ IF status = TokenStatusOK
     THEN /\ issued < MaxIssue
          /\ issued' = issued + 1
          /\ tokResp' = [tokResp EXCEPT ![t] =
                           [status |-> status, body |-> TokenBody(issued + 1, dom)]]
     ELSE /\ tokResp' = [tokResp EXCEPT ![t] = [status |-> status, body |-> ErrorBody]]
          /\ UNCHANGED issued
  /\ pc' = [pc EXCEPT ![t] = "exchanged"]
  /\ UNCHANGED <<sessionVars, ops, op, kwargs, wire, rejected, first, second,
                 result, reqCount, authCount, exchCount, exch, testVars, raised, overlap>>

\* _post_access_token, lines 194-196, authenticate, lines 148-152, and
\* _request, lines 98-100: the token response arrives.  A status other than
\* 200 raises BadStatusCode through authenticate and _request; otherwise
\* update_eas_object runs, and a failing save raises through them as well.
TokenResponse(t, outcome) ==
  /\ pc[t] = "exchanged"
  /\ tokResp' = [tokResp EXCEPT ![t] = NoTokResp]
  /\ IF ~validate_status(tokResp[t].status, TokenStatusOK)
     THEN /\ result' = [result EXCEPT ![t] =
                          [kind |-> "BadStatusCode", status |-> tokResp[t].status]]
          /\ pc' = [pc EXCEPT ![t] = "idle"]
          /\ raised' = TRUE
          /\ UNCHANGED sessionVars
     ELSE /\ UpdateEasObject(tokResp[t].body, outcome)
          /\ UNCHANGED constructed
          /\ raised' = (raised \/ outcome # "ok")
          /\ IF outcome # "ok"
             THEN /\ result' = [result EXCEPT ![t] = [kind |-> "OSError", status |-> 0]]
                  /\ pc' = [pc EXCEPT ![t] = "idle"]
             ELSE IF op[t] = "request"
                  THEN /\ pc' = [pc EXCEPT ![t] = "resend"]
                       /\ UNCHANGED result
                  ELSE /\ result' = [result EXCEPT ![t] = [kind |-> "returned", status |-> 0]]
                       /\ pc' = [pc EXCEPT ![t] = "idle"]
  /\ UNCHANGED <<issued, ops, op, kwargs, wire, rejected, first, second,
                 reqCount, authCount, exchCount, exch, testVars, overlap>>

\* _request, line 96: the original request is sent again
Resend(t) ==
  /\ pc[t] = "resend"
  /\ wire' = [wire EXCEPT ![t] = RequestAuthorization(header, kwargs[t])]
  /\ reqCount' = [reqCount EXCEPT ![t] = @ + 1]
  /\ pc' = [pc EXCEPT ![t] = "wait2"]
  /\ UNCHANGED <<sessionVars, issued, ops, op, kwargs, rejected, first, second,
                 result, authCount, exchCount, exch, tokResp, testVars, raised, overlap>>

\* a resend that authenticates again when it is answered 401
SecondResponseRetry(t, status) ==
  /\ pc[t] = "wait2"
  /\ second' = [second EXCEPT ![t] = status]
  /\ IF status = Unauthorized
     THEN /\ authCount' = [authCount EXCEPT ![t] = @ + 1]
          /\ pc' = [pc EXCEPT ![t] = "auth"]
          /\ UNCHANGED result
     ELSE /\ result' = [result EXCEPT ![t] = [kind |-> "response", status |-> status]]
          /\ pc' = [pc EXCEPT ![t] = "idle"]
          /\ UNCHANGED authCount
  /\ UNCHANGED <<sessionVars, issued, ops, op, kwargs, wire, rejected, first,
                 reqCount, exchCount, exch, tokResp, testVars, raised, overlap>>

\* _request, lines 96 and 102: the resend's response is returned as it is
SecondResponse(t, status) ==
  /\ pc[t] = "wait2"
  /\ second' = [second EXCEPT ![t] = status]
  /\ result' = [result EXCEPT ![t] = [kind |-> "response", status |-> status]]
  /\ pc' = [pc EXCEPT ![t] = "idle"]
  /\ UNCHANGED <<sessionVars, issued, ops, op, kwargs, wire, rejected, first,
                 reqCount, authCount, exchCount, exch, tokResp, testVars, raised, overlap>>

\* a network call raises (connection error, timeout): _request, lines
\* 98-100, and authenticate, lines 148-150, raise it again
TransportError(t) ==
  /\ pc[t] \in {"wait1", "wait2", "exchange"}
  /\ result' = [result EXCEPT ![t] = [kind |-> "TransportError", status |-> 0]]
  /\ pc' = [pc EXCEPT ![t] = "idle"]
  /\ raised' = TRUE
  /\ UNCHANGED <<sessionVars, issued, ops, op, kwargs, wire, rejected, first,
                 second, reqCount, authCount, exchCount, exch, tokResp, testVars, overlap>>

\* one step of caller t
Step(t) ==
  \/ \E override \in Overrides : CallRequest(t, override)
  \/ \E status \in ApiStatuses : FirstResponse(t, status)
  \/ CallAuthenticate(t)
  \/ PostAccessToken(t)
  \/ \E status \in TokenStatuses, dom \in RespDomains : AuthServer(t, status, dom)
  \/ \E outcome \in SaveOutcomes : TokenResponse(t, outcome)
  \/ Resend(t)
  \/ \E status \in ApiStatuses : SecondResponse(t, status)
  \/ TransportError(t)

\* the single-threaded session the library is written for
Next ==
  \/ \E outcome \in SaveOutcomes : Construct(outcome)
  \/ Step(1)

Spec == Init /\ [][Next]_vars

\* two threads calling into one session
NextConc ==
  \/ \E outcome \in SaveOutcomes : Construct(outcome)
  \/ \E t \in Callers : Step(t)

SpecConc == Init /\ [][NextConc]_vars

\* ------------------------------------------------------------------------
\* update_eas_object on its own: a constructed session holding any
\* credential set takes any update, twice
\* ------------------------------------------------------------------------
\* the value of field f in the n-th pair, or its default
FieldValue(f, n, fresh) == IF fresh THEN TokenBody(n, {f})[f] ELSE FieldDefault(f)

\* credential sets: each field holds its default or a value of pair 1
CredSets == {[f \in Fields |-> FieldValue(f, 1, f \in S)] : S \in SUBSET Fields}

\* updates: any subset of the fields, each with its default or a value of pair 2
UpdatesOn(dom) == {[f \in dom |-> FieldValue(f, 2, f \in S)] : S \in SUBSET dom}

Updates == UNION {UpdatesOn(dom) : dom \in SUBSET Fields}

InitMerge ==
  /\ eas \in CredSets
  /\ constructed = "ok"
  /\ header = Bearer(eas.access_token)
  /\ file = save_json(eas)
  /\ InitCalls
  /\ rnvIn = EmptyDict
  /\ rnvOut = EmptyDict
  /\ stage = "merge0"
  /\ mPrev = eas
  /\ mUpd \in Updates
  /\ mOnce = eas

\* update_eas_object(mUpd), the first time
MergeOnce ==
  /\ stage = "merge0"
  /\ UpdateEasObject(mUpd, "ok")
  /\ mOnce' = eas'
  /\ stage' = "merge1"
  /\ UNCHANGED <<constructed, issued, ops, callVars, raised, overlap, rnvIn, rnvOut, mPrev, mUpd>>

\* update_eas_object(mUpd), the second time
MergeTwice ==
  /\ stage = "merge1"
  /\ UpdateEasObject(mUpd, "ok")
  /\ stage' = "merge2"
  /\ UNCHANGED <<constructed, issued, ops, callVars, raised, overlap, rnvIn, rnvOut, mPrev, mUpd, mOnce>>

NextMerge == MergeOnce \/ MergeTwice

SpecMerge == InitMerge /\ [][NextMerge]_vars

\* ------------------------------------------------------------------------
\* remove_null_values on its own
\* ------------------------------------------------------------------------
\* dicts with keys among keys and values among values
DictsOver(keys, values) == UNION {[dom -> values] : dom \in SUBSET keys}

Scalars == {None, Str(""), Str("x")}

\* the params under test: flat ones and ones holding a nested dict
ParamDicts ==
  DictsOver({"a", "b"}, Scalars \cup {Dict(d) : d \in DictsOver({"c", "d"}, Scalars)})

InitRNV ==
  /\ file = NoFile
  /\ constructed = "none"
  /\ eas = EASObject(EmptyDict)
  /\ header = ""
  /\ InitCalls
  /\ rnvIn \in ParamDicts
  /\ rnvOut = EmptyDict
  /\ stage = "rnv0"
  /\ mPrev = EASObject(EmptyDict)
  /\ mUpd = EmptyDict
  /\ mOnce = EASObject(EmptyDict)

\* remove_null_values(rnvIn)
ApplyRemoveNull ==
  /\ stage = "rnv0"
  /\ rnvOut' = remove_null_values(rnvIn)
  /\ stage' = "rnv1"
  /\ UNCHANGED <<sessionVars, raised, overlap, issued, ops, callVars, rnvIn, mPrev, mUpd, mOnce>>

\* the payload authenticate sends for a credential set obj
BuildRefreshParams(obj) ==
  /\ stage = "rnv0"
  /\ mPrev' = obj
  /\ rnvOut' = RefreshParams(obj)
  /\ stage' = "refresh"
  /\ UNCHANGED <<sessionVars, raised, overlap, issued, ops, callVars, rnvIn, mUpd, mOnce>>

NextRNV ==
  \/ ApplyRemoveNull
  \/ \E obj \in CredSets : BuildRefreshParams(obj)

SpecRNV == InitRNV /\ [][NextRNV]_vars

\* ------------------------------------------------------------------------
\* Properties
\* ------------------------------------------------------------------------
\* caller t's call has returned or raised
Finished(t) == pc[t] = "idle" /\ result[t].kind # "none"

\* the refresh of caller t's call failed: BadStatusCode or a failed save
RefreshFailed(t) == result[t].kind \in {"BadStatusCode", "OSError"}

\* C1, as stated: a _request whose first response is 401 runs authenticate
\* once, then resends once and returns the resend's response; any other
\* first response is returned with no refresh and no resend.  (Calls ended
\* by a transport exception are left out: the claim is about responses.)
C1_AlwaysResends ==
  \A t \in Callers :
    (op[t] = "request" /\ Finished(t) /\ result[t].kind # "TransportError") =>
      /\ (first[t] = Unauthorized) <=> (authCount[t] = 1)
      /\ first[t] = Unauthorized =>
           /\ reqCount[t] = 2
           /\ result[t] = [kind |-> "response", status |-> second[t]]
      /\ first[t] # Unauthorized =>
           /\ reqCount[t] = 1
           /\ result[t] = [kind |-> "response", status |-> first[t]]

\* C1, amended: a _request sends the original request once; it runs
\* authenticate once if and only if the first response is 401; when that
\* refresh succeeds it resends exactly once and returns the resend's
\* response whatever its status; when the refresh fails it raises without
\* resending.  It never makes a third attempt or a second refresh.
C1_SingleRetry ==
  \A t \in Callers :
    op[t] = "request" =>
      /\ reqCount[t] \in {1, 2}
      /\ authCount[t] \in {0, 1}
      /\ exchCount[t] \in {0, 1}
      /\ first[t] # 0 => ((first[t] = Unauthorized) <=> (authCount[t] = 1))
      /\ first[t] = 0 => authCount[t] = 0
      /\ reqCount[t] = 2 => (first[t] = Unauthorized /\ exchCount[t] = 1)
      /\ (Finished(t) /\ result[t].kind # "TransportError") =>
           /\ first[t] # Unauthorized =>
                /\ reqCount[t] = 1
                /\ result[t] = [kind |-> "response", status |-> first[t]]
           /\ (first[t] = Unauthorized /\ ~RefreshFailed(t)) =>
                /\ reqCount[t] = 2
                /\ second[t] # 0
                /\ result[t] = [kind |-> "response", status |-> second[t]]
           /\ (first[t] = Unauthorized /\ RefreshFailed(t)) =>
                /\ reqCount[t] = 1
                /\ second[t] = 0

\* a _request answered 401 twice has returned the second 401 after one
\* refresh and one resend
C1_Witness ==
  /\ op[1] = "request" /\ Finished(1)
  /\ first[1] = Unauthorized /\ second[1] = Unauthorized
  /\ result[1] = [kind |-> "response", status |-> Unauthorized]
  /\ reqCount[1] = 2 /\ authCount[1] = 1 /\ exchCount[1] = 1

\* C2: after update_eas_object(u) every field present in u has u's value
\* and every field absent from u has its previous value; merging u a second
\* time changes nothing.
C2_MergeKeepsAndOverwrites ==
  /\ stage \in {"merge1", "merge2"} =>
       \A f \in Fields :
         /\ f \in DOMAIN mUpd => eas[f] = mUpd[f]
         /\ f \notin DOMAIN mUpd => eas[f] = mPrev[f]
  /\ stage = "merge2" => eas = mOnce

\* the spec's scenario: refresh_token R1 kept, access_token and token_type
\* taken from the update, merged twice
C2_Witness ==
  /\ stage = "merge2"
  /\ mPrev.refresh_token = "R1" /\ mPrev.access_token = "A1"
  /\ mUpd = [access_token |-> "A2", token_type |-> "Bearer"]
  /\ eas.access_token = "A2" /\ eas.refresh_token = "R1" /\ eas.token_type = "Bearer"

\* the file holds exactly the six fields, with the values held in memory
InSync ==
  /\ CanLoad(file)
  /\ DOMAIN load_json(file) = Fields
  /\ \A f \in Fields : load_json(file)[f] = eas[f]
  /\ EASObject(load_json(file)) = eas

\* C3: in a single-threaded session, whenever no call is under way and no
\* call has raised, the credential file equals the in-memory set in all six
\* fields.
C3_DiskEqualsMemory ==
  (constructed = "ok" /\ ~raised /\ \A t \in Callers : pc[t] = "idle") => InSync

\* a request was answered 401, the refresh and the resend went through,
\* and the new pair is in memory and in the file
C3_Witness ==
  /\ constructed = "ok" /\ ~raised
  /\ op[1] = "request" /\ Finished(1) /\ first[1] = Unauthorized
  /\ eas.access_token = "A1" /\ eas.refresh_token = "R1"
  /\ InSync

\* C4: when the token response is not 200, the call raises BadStatusCode at
\* once: memory, header and file stay as they were, no second token POST is
\* made and the original request is not sent again.
C4_ExchangeFailureIsFatal ==
  [][\A t \in Callers :
       (pc[t] = "exchanged" /\ pc'[t] # "exchanged"
        /\ tokResp[t].status # TokenStatusOK) =>
         /\ pc'[t] = "idle"
         /\ result'[t] = [kind |-> "BadStatusCode", status |-> tokResp[t].status]
         /\ eas' = eas /\ header' = header /\ file' = file
         /\ exchCount[t] = 1 /\ exchCount'[t] = 1
         /\ reqCount'[t] = reqCount[t]
         /\ op[t] = "request" => (reqCount[t] = 1 /\ second'[t] = 0)]_vars

\* a request answered 401 has raised BadStatusCode after one token POST,
\* with no resend and the old token still installed
C4_Witness ==
  /\ op[1] = "request" /\ Finished(1)
  /\ result[1] = [kind |-> "BadStatusCode", status |-> 400]
  /\ reqCount[1] = 1 /\ exchCount[1] = 1
  /\ eas.access_token = "A0" /\ header = "Bearer A0"

\* C5: when the token exchange succeeds and the save fails, the call raises
\* and memory and header already hold the merged set with the new access
\* token.
C5_PersistFailureSurfaces ==
  [][\A t \in Callers :
       (pc[t] = "exchanged" /\ pc'[t] # "exchanged"
        /\ tokResp[t].status = TokenStatusOK /\ lastSave' # "ok") =>
         /\ pc'[t] = "idle"
         /\ result'[t].kind = "OSError"
         /\ raised'
         /\ eas'.access_token = tokResp[t].body.access_token
         /\ eas'.access_token # eas.access_token
         /\ header' = Bearer(tokResp[t].body.access_token)
         /\ file' # save_json(eas')]_vars

\* a refresh whose save failed: the call raised, A1 is in memory and in the
\* header, the file does not hold it
C5_Witness ==
  /\ constructed = "ok" /\ Finished(1) /\ result[1].kind = "OSError"
  /\ lastSave = "write_failed"
  /\ eas.access_token = "A1" /\ header = "Bearer A1"
  /\ file = Truncated

\* C6, as stated: no token POST carries an empty refresh_token.
C6_NoEmptyRefreshToken ==
  \A t \in Callers :
    pc[t] \in {"exchange", "exchanged"} =>
      /\ "refresh_token" \in DOMAIN exch[t]
      /\ exch[t].refresh_token # Str("")

\* C7: once constructed, the Authorization header is "Bearer " followed by
\* the access_token in memory; a request in flight without an override
\* carries it, and the resend never carries the header that was rejected.
C7_HeaderIsCurrentToken ==
  constructed = "ok" =>
    /\ header = "Bearer " \o eas.access_token
    /\ \A t \in Callers :
         (pc[t] \in {"wait1", "wait2"} /\ kwargs[t] = "") =>
           /\ wire[t] = "Bearer " \o eas.access_token
           /\ pc[t] = "wait2" => wire[t] # rejected[t]

\* the resend after a refresh is in flight with the new token
C7_Witness ==
  /\ constructed = "ok" /\ pc[1] = "wait2" /\ kwargs[1] = ""
  /\ rejected[1] = "Bearer A0"
  /\ wire[1] = "Bearer A1" /\ eas.access_token = "A1"

\* C8, as stated: a successful construction leaves the file as it found it;
\* a request whose first response is not 401 changes neither memory, header
\* nor file and makes no token POST; after construction only a 200 token
\* response changes memory or file.
C8_OnlyRefreshWrites ==
  [][/\ (constructed = "none" /\ constructed' = "ok") => file' = file
     /\ \A t \in Callers :
          (pc[t] = "wait1" /\ pc'[t] = "idle" /\ first'[t] # Unauthorized) =>
            (eas' = eas /\ header' = header /\ file' = file /\ exchCount'[t] = 0)
     /\ (constructed = "ok" /\ (eas' # eas \/ file' # file)) =>
          \E t \in Callers : pc[t] = "exchanged" /\ tokResp[t].status = TokenStatusOK]_vars

\* out is params without its None entries, a nested dict filtered likewise
RECURSIVE Filtered(_, _)
Filtered(params, out) ==
  /\ DOMAIN out = {k \in DOMAIN params : params[k] # None}
  /\ \A k \in DOMAIN out :
       IF params[k].t = "dict"
       THEN out[k].t = "dict" /\ Filtered(params[k].v, out[k].v)
       ELSE out[k] = params[k]

\* the payload of a refresh has exactly the keys grant_type, refresh_token
\* and client_id, with the values authenticate passed
RefreshPayloadOK ==
  /\ DOMAIN rnvOut = {"grant_type", "refresh_token", "client_id"}
  /\ rnvOut.grant_type = Str("refresh_token")
  /\ rnvOut.refresh_token = Str(mPrev.refresh_token)
  /\ rnvOut.client_id = Str(ConsumerKey)

\* C9, as stated: the refresh payload has exactly the three keys, and
\* remove_null_values returns exactly the entries whose value is not None,
\* with their values unchanged.
C9_ValuesUnchanged ==
  /\ stage = "refresh" => RefreshPayloadOK
  /\ stage = "rnv1" =>
       /\ DOMAIN rnvOut = {k \in DOMAIN rnvIn : rnvIn[k] # None}
       /\ \A k \in DOMAIN rnvOut : rnvOut[k] = rnvIn[k]

\* C9, amended: the refresh payload has exactly the three keys, and
\* remove_null_values returns exactly the entries whose value is not None,
\* each value unchanged except that a nested dict is filtered the same way.
C9_RemoveNullValues ==
  /\ stage = "refresh" => RefreshPayloadOK
  /\ stage = "rnv1" => Filtered(rnvIn, rnvOut)

\* a None entry dropped at the top and one dropped inside a nested dict
C9_Witness ==
  /\ stage = "rnv1"
  /\ rnvIn = [a |-> Dict([c |-> None, d |-> Str("x")]), b |-> None]
  /\ rnvOut = [a |-> Dict([d |-> Str("x")])]

\* the pair the auth server issued last is the one in memory
LatestInMemory == issued = 0 \/ eas.access_token = "A" \o ToString(issued)

\* C10: nothing serializes refresh: a caller about to make its token POST
\* can make it while another caller's exchange is under way; and when all
\* calls have ended without raising, memory holds an older pair than the
\* one issued last only if two exchanges were under way at once.
C10_RefreshNotSerialized ==
  /\ \A t \in Callers :
       (pc[t] = "auth" /\ \E u \in Callers \ {t} : pc[u] \in {"exchange", "exchanged"})
         => ENABLED PostAccessToken(t)
  /\ (~raised /\ ~LatestInMemory /\ \A t \in Callers : pc[t] = "idle") => overlap

\* both requests were answered 401 and refreshed with both exchanges under
\* way at once; both have returned, the server has issued two pairs, and
\* memory and file hold the first one
C10_Witness ==
  /\ \A t \in Callers :
       /\ op[t] = "request" /\ Finished(t) /\ result[t].kind = "response"
       /\ first[t] = Unauthorized /\ exchCount[t] = 1
  /\ overlap
  /\ issued = 2
  /\ eas.access_token = "A1" /\ eas.refresh_token = "R1"
  /\ header = "Bearer A1"
  /\ file = save_json(eas)

====
